---- MODULE Spec2Model ----
(***************************************************************************)
(* A model of the PusH node event loop (push/lib/node_event_loop.py): one  *)
(* NodeEventLoop instance, its inbound and outbound queues, its worker     *)
(* threads, the coordinator and the peer ranks that feed its inbound       *)
(* queue, and the particle handlers it runs (push/bayes/mc_dropout.py      *)
(* style programs).                                                        *)
(*                                                                         *)
(* The dispatch context is a call stack of frames:                         *)
(*   disp  - a call of _dispatch(msg) that has not returned yet            *)
(*   fn    - a particle handler (receive function) being executed          *)
(*   send  - NodeEventLoop.send after its handler returned (lines 468-474) *)
(*   wait  - NodeEventLoop._wait pumping or replaying                      *)
(* Worker threads run concurrently with the dispatch context.              *)
(***************************************************************************)
EXTENDS Integers, Sequences, FiniteSets, TLC

\* ---------------------------------------------------------------------
\* Bounds of the model
\* ---------------------------------------------------------------------
NPids == 2
NDev == 2
CacheSize == 1
MaxLaunch == 2
MaxCtl == 1
MaxBcast == 1
MaxPeer == 1
MaxQueue == 2
MaxRaise == 1

\* ---------------------------------------------------------------------
\* Identities
\* ---------------------------------------------------------------------
Rank == 0
Pids == 0 .. (NPids - 1)
RemotePid == NPids
Devices == 0 .. (NDev - 1)
\* values carried by results, arguments and acknowledgments: a tag and the place
\* the data lives (<<>> is host memory, <<d>> is device d)
Val(v, loc) == [v |-> v, loc |-> loc]
None == Val("None", <<>>)

Last(s) == s[Len(s)]
Front(s) == SubSeq(s, 1, Len(s) - 1)

RECURSIVE SeqToSet(_)
SeqToSet(s) == IF s = <<>> THEN {} ELSE {Head(s)} \cup SeqToSet(Tail(s))

RECURSIVE Without(_, _)
Without(s, x) ==
    IF s = <<>> THEN <<>>
    ELSE IF Head(s) = x THEN Without(Tail(s), x)
         ELSE <<Head(s)>> \o Without(Tail(s), x)

\* f with key k bound to v (a Python dict store)
Put(f, k, v) == [x \in (DOMAIN f) \cup {k} |-> IF x = k THEN v ELSE f[x]]
\* f without key k (a Python dict pop)
Drop(f, k) == [x \in (DOMAIN f) \ {k} |-> f[x]]

\* ---------------------------------------------------------------------
\* Particle handlers (the receive tables installed at particle creation).
\* A handler is a straight-line program over the Particle API.
\* ---------------------------------------------------------------------
I(i) == [i |-> i]
ISend(to, op) == [i |-> "send", to |-> to, op |-> op]
IGet(to) == [i |-> "get", to |-> to]
\* return: the handler's arguments, the last waited result, or nothing
IRet(what) == [i |-> "ret", what |-> what]

\* _multimc_step: particle.step(...) without waiting on the future
ProgStep == <<I("step"), IRet("none")>>
\* _multimc_main, one batch: step().wait(), then send MULTIMC_STEP to the others
ProgMain == <<I("step"), I("wait"), ISend("other", "STEP"), IRet("none")>>
\* a prediction handler: zero_grad().wait(), then forward().wait()
ProgFwd == <<I("zero_grad"), I("wait"), I("forward"), I("wait"), IRet("last")>>

\* an operation name no table holds
UnknownOp == "NOP"

Prog(op) ==
    CASE op = "STEP" -> ProgStep
      [] op = "MAIN" -> ProgMain
      [] op = "FWD" -> ProgFwd
      [] op = "SCHED" -> <<I("sched"), I("wait"), IRet("last")>>
      [] op = "RET" -> <<IRet("args")>>
      [] op = "RAISE" -> <<I("raise")>>
      [] op = "SEND" -> <<ISend("other", "RET"), I("wait"), IRet("last")>>
      [] op = "SENDRAISE" -> <<ISend("other", "RAISE"), IRet("none")>>
      [] op = "SENDREMOTE" -> <<ISend("remote", "RET"), I("wait"), IRet("last")>>
      [] op = "GET" -> <<IGet("other"), I("wait"), ISend("other", "STEP"), IRet("last")>>
      [] op = "SENDNOP" -> <<ISend("other", UnknownOp), I("wait"), IRet("last")>>
      [] OTHER -> <<IRet("none")>>

\* receive table of the leader particle (pid 0) and of the other particles
LeaderOps ==
    {"MAIN", "FWD", "SEND", "SENDRAISE", "SENDREMOTE", "SCHED", "GET", "SENDNOP"}
WorkerOps == {"STEP", "RET", "RAISE"}
Receive(pid) == IF pid = 0 THEN LeaderOps ELSE WorkerOps
\* the operation a register message adds to the leader's table
LateOp == "RET"

\* Particle.other_particles(): the next local particle
Other(pid) == (pid + 1) % NPids
Target(pid, to) == IF to = "remote" THEN RemotePid ELSE Other(pid)

VARIABLES
    in_queue,        \* self.in_queue: messages not yet taken
    out_queue,       \* self.out_queue: acknowledgments and errors to the coordinator
    peer_queue,      \* self._in_queues[r] of the other rank: requests put there
    has_queues,      \* self._in_queues was set by a broadcast
    particle_to_rank,
    particle_to_device,
    hooks,
    future_id,
    particle_to_futures,
    future_to_particle,
    results,
    results_lock,    \* self._results_lock: "free" or the context that holds it
    device_to_pthread,
    caches,          \* self.particle_caches
    view_caches,     \* self.view_caches
    saved,           \* save_to_disk calls of the last persist request
    threads,         \* worker threads by future id
    stack,           \* call stack of the dispatch context
    loop,            \* "running" | "returned" | "crashed"
    coord,           \* the coordinator: next pid, true device map, budgets
    hist             \* history of the run (observations only)

vars == <<in_queue, out_queue, peer_queue, has_queues, particle_to_rank,
          particle_to_device, hooks, future_id, particle_to_futures,
          future_to_particle, results, results_lock, device_to_pthread, caches,
          view_caches, saved,
          threads, stack, loop, coord, hist>>

\* the lock is created at line 102; no line of the class acquires it
tables == <<has_queues, particle_to_rank, particle_to_device, hooks, results_lock>>
futures == <<future_id, particle_to_futures, future_to_particle>>
devstate == <<device_to_pthread, caches>>

EmptyMap == [x \in {} |-> None]
\* a ParticleCache after construction
EmptyCache == [res |-> <<>>, pin |-> {}, made |-> {}, val |-> <<>>]

Init ==
    /\ in_queue = <<>>
    /\ out_queue = <<>>
    /\ peer_queue = <<>>
    /\ has_queues = FALSE
    /\ particle_to_rank = EmptyMap
    /\ particle_to_device = EmptyMap
    /\ hooks = EmptyMap
    /\ future_id = 0
    /\ particle_to_futures = EmptyMap
    /\ future_to_particle = EmptyMap
    /\ results_lock = "free"
    /\ results = EmptyMap
    /\ device_to_pthread = <<>>
    /\ caches = [d \in Devices |-> EmptyCache]
    /\ view_caches = [d \in Devices |-> EmptyCache]
    /\ saved = <<>>
    /\ threads = EmptyMap
    /\ stack = <<>>
    /\ loop = "running"
    /\ coord = [next |-> 0, p2d |-> [x \in {RemotePid} |-> 0], seq |-> 0,
                launch |-> 0, ctl |-> 0, bcast |-> 0, peer |-> 0,
                sent |-> 0, acked |-> {}]
    /\ hist = [issued |-> <<>>, consumed |-> <<>>, dlog |-> <<>>, nwait |-> 0,
               nraise |-> 0, hret |-> EmptyMap, wret |-> EmptyMap,
               xsend |-> {}, xreq |-> {}, teardown |-> FALSE, gets |-> <<>>,
               dropped |-> {}, saves |-> {}, initdev |-> <<>>,
               buf |-> <<>>, wdone |-> {}, inl |-> {}, greq |-> {}]

\* ---------------------------------------------------------------------
\* ParticleCache (push/lib/context_switch.py): a bounded per-device store.
\*   res  - resident entries, least recently released first
\*   pin  - pinned entries
\*   made - every id created in this cache
\*   val  - the parameter values of each entry (the number of updates applied)
\* ---------------------------------------------------------------------
CacheContains(c, pid) == pid \in c.made

CacheCreate(c, pid) == [c EXCEPT !.made = @ \cup {pid}, !.val = Put(@, pid, 0)]

Unpinned(c) == SelectSeq(c.res, LAMBDA p : p \notin c.pin)

\* try_read(pid, pin): the entry, made resident if room can be found among the
\* unpinned entries; absent (ok = FALSE) when every resident entry is pinned
TryRead(c, pid, pin) ==
    LET pinned == IF pin THEN c.pin \cup {pid} ELSE c.pin IN
    IF pid \in SeqToSet(c.res)
    THEN [ok |-> TRUE, c |-> [c EXCEPT !.pin = pinned]]
    ELSE IF Len(c.res) < CacheSize
    THEN [ok |-> TRUE, c |-> [c EXCEPT !.res = Append(@, pid), !.pin = pinned]]
    ELSE IF Unpinned(c) # <<>>
    THEN [ok |-> TRUE,
          c |-> [c EXCEPT !.res = Append(Without(@, Head(Unpinned(c))), pid),
                          !.pin = pinned]]
    ELSE [ok |-> FALSE, c |-> c]

\* release(pid, thread) after the join: unpin and mark recently used
Release(c, pid) ==
    [c EXCEPT !.pin = @ \ {pid},
              !.res = IF pid \in SeqToSet(@) THEN Append(Without(@, pid), pid) ELSE @]

\* ---------------------------------------------------------------------
\* Context switching
\* ---------------------------------------------------------------------
Running(t) == t \in DOMAIN threads /\ threads[t].st = "run"

Find(d2p, dev) == SelectSeq(d2p, LAMBDA e : e.dev = dev)

\* a faulty variant: the slot of the device is cleared, the module is not released
WaitParticleThreadNoRelease(pid) ==
    LET dev == particle_to_device[pid]
        hit == Find(device_to_pthread, dev)
    IN  IF hit # <<>> /\ Running(Head(hit).t)
        THEN [st |-> "block", d2p |-> device_to_pthread, caches |-> caches]
        ELSE [st |-> "ok",
              d2p |-> SelectSeq(device_to_pthread, LAMBDA e : e.dev # dev),
              caches |-> caches]

\* a faulty variant: when the device is in use, the oldest recorded operation
\* is retired, whichever device it runs on
WaitParticleThreadOldest(pid) ==
    LET dev == particle_to_device[pid]
        hit == Find(device_to_pthread, dev)
    IN  IF hit = <<>>
        THEN [st |-> "ok", d2p |-> device_to_pthread, caches |-> caches]
        ELSE LET a == Head(device_to_pthread)
                 adev == particle_to_device[a.pid]
             IN  IF Running(a.t)
                 THEN [st |-> "block", d2p |-> device_to_pthread, caches |-> caches]
                 ELSE [st |-> "ok",
                       d2p |-> Tail(device_to_pthread),
                       caches |-> [caches EXCEPT ![adev] = Release(@, a.pid)]]

\* a faulty variant: the operation recorded on the device is not retired
WaitParticleThreadNoJoin(pid) ==
    [st |-> "ok", d2p |-> device_to_pthread, caches |-> caches]

\* _wait_particle_thread(pid): retire the operation recorded on pid's device.
\* st is "ok", or "block" while the join of a running worker is pending.
WaitParticleThread(pid) ==
    LET dev == particle_to_device[pid]
        hit == Find(device_to_pthread, dev)
    IN  IF hit = <<>>
        THEN [st |-> "ok", d2p |-> device_to_pthread, caches |-> caches]
        ELSE LET a == Head(hit)
                 adev == particle_to_device[a.pid]
             IN  IF Running(a.t)
                 THEN [st |-> "block", d2p |-> device_to_pthread, caches |-> caches]
                 ELSE [st |-> "ok",
                       d2p |-> SelectSeq(device_to_pthread, LAMBDA e : e.dev # dev),
                       caches |-> [caches EXCEPT ![adev] = Release(@, a.pid)]]

\* the reload loop of _context_switch_module: while the read reports absent,
\* retire the oldest recorded operation (of any device) and read again
RECURSIVE Reload(_, _, _, _)
Reload(pid, pin, d2p, cs) ==
    LET dev == particle_to_device[pid]
        r == TryRead(cs[dev], pid, pin)
    IN  IF r.ok
        THEN [st |-> "ok", d2p |-> d2p, caches |-> [cs EXCEPT ![dev] = r.c]]
        ELSE IF d2p = <<>>
        THEN [st |-> "err", d2p |-> d2p, caches |-> cs]
        ELSE LET a == Head(d2p) IN
             IF Running(a.t)
             THEN [st |-> "block", d2p |-> d2p, caches |-> cs]
             ELSE Reload(pid, pin, Tail(d2p),
                         [cs EXCEPT ![particle_to_device[a.pid]] = Release(@, a.pid)])

\* _context_switch_module(pid, pin): st is "ok" (the module is returned),
\* "block" (a join is pending) or "err" (the call raises)
ContextSwitch(pid, pin) ==
    IF pid \notin DOMAIN particle_to_device
    THEN [st |-> "err", d2p |-> device_to_pthread, caches |-> caches]
    ELSE IF ~CacheContains(caches[particle_to_device[pid]], pid)
    THEN [st |-> "err", d2p |-> device_to_pthread, caches |-> caches]
    ELSE LET w == WaitParticleThread(pid) IN
         IF w.st = "block" THEN w ELSE Reload(pid, pin, w.d2p, w.caches)

\* ---------------------------------------------------------------------
\* Messages (push/lib/messages.py); seq numbers the arrivals on in_queue
\* ---------------------------------------------------------------------
Enqueue(m) ==
    /\ Len(in_queue) < MaxQueue
    /\ in_queue' = Append(in_queue, [m EXCEPT !.seq = coord.seq + 1])

ReceiveParticleInitPDMSG(dev, pid, receive) ==
    [kind |-> "ReceiveParticleInitPDMSG", seq |-> 0, device |-> dev, pid |-> pid,
     receive |-> receive]
ReceiveRegisterPDMSG(pid, op) ==
    [kind |-> "ReceiveRegisterPDMSG", seq |-> 0, pid |-> pid, msg |-> op]
ReceiveParametersPDMSG(pid_fid, pid) ==
    [kind |-> "ReceiveParametersPDMSG", seq |-> 0, pid_fid |-> pid_fid, pid |-> pid]
ReceiveFuncPDMSG(pid_fid, pid_to, op, args) ==
    [kind |-> "ReceiveFuncPDMSG", seq |-> 0, pid_fid |-> pid_fid, pid_to |-> pid_to,
     msg |-> op, args |-> args]
ReceiveFuncMSG(pid_fid, pid, op, args) ==
    [kind |-> "ReceiveFuncMSG", seq |-> 0, pid_fid |-> pid_fid, pid |-> pid,
     msg_name |-> op, args |-> args]
ReceiveGetMSG(pid_fid, pid_caller, pid) ==
    [kind |-> "ReceiveGetMSG", seq |-> 0, pid_fid |-> pid_fid,
     pid_caller |-> pid_caller, pid |-> pid]
ReceiveGetAckMSG(fid, pid) ==
    [kind |-> "ReceiveGetAckMSG", seq |-> 0, fid |-> fid, pid |-> pid]
NELBroadcastParticlesMSG(p2d) ==
    [kind |-> "NELBroadcastParticlesMSG", seq |-> 0, particle_to_device |-> p2d]
NELSaveModel(pid_fid) ==
    [kind |-> "NELSaveModel", seq |-> 0, pid_fid |-> pid_fid]
NodeEvtLoopCleanupMSG ==
    [kind |-> "NodeEvtLoopCleanupMSG", seq |-> 0]

\* what the loop puts on out_queue
\* a faulty variant: the acknowledgment does not carry the routing id
AckNoId(kind, pid_fid, result) == [kind |-> kind, pid_fid |-> <<>>, result |-> result]
Ack(kind, pid_fid, result) == [kind |-> kind, pid_fid |-> pid_fid, result |-> result]
Error(name, id) == [kind |-> "Error", name |-> name, id |-> id]

\* ---------------------------------------------------------------------
\* The coordinator (PusH) and the peer ranks: producers of in_queue
\* ---------------------------------------------------------------------
loopstate == <<out_queue, peer_queue, tables, futures, results, devstate,
               view_caches, saved, threads, stack, loop, hist>>

Created == 0 .. (coord.next - 1)

\* A put on in_queue commutes with every step of the loop but a get, so the
\* producers are scheduled right before the gets: when _start_event_loop or a
\* pumping _wait is about to read the queue. A message put after the loop
\* ended is never read.
Receptive ==
    /\ loop = "running"
    /\ IF stack = <<>> THEN TRUE
       ELSE IF stack[Len(stack)].k = "wait" THEN stack[Len(stack)].phase = "pump"
       ELSE FALSE

ControlAcks ==
    {"ReceiveParticleInitAckPDMSG", "ReceiveRegisterAckPDMSG",
     "ReceiveParametersAckPDMSG", "NELSaveModelAckPDMSG", "NELBroadcastParticlesAckMSG"}

\* the coordinator is one thread: a control request blocks it until the
\* acknowledgment is on out_queue; a launch returns a future at once
CoordReady ==
    /\ Receptive
    /\ coord.sent = Len(SelectSeq(out_queue, LAMBDA m : m.kind \in ControlAcks))

Control(m) ==
    /\ CoordReady
    /\ coord.ctl < MaxCtl
    /\ Enqueue(m)
    /\ coord' = [coord EXCEPT !.ctl = @ + 1, !.seq = @ + 1, !.sent = @ + 1]
    /\ UNCHANGED loopstate

\* p_create: the next pid; the leader on device 0, the others on any device
CoordCreate ==
    /\ CoordReady
    /\ coord.next < NPids
    /\ \E dev \in (IF coord.next = 0 THEN {0} ELSE Devices) :
        /\ Enqueue(ReceiveParticleInitPDMSG(dev, coord.next, Receive(coord.next)))
        /\ coord' = [coord EXCEPT !.next = @ + 1, !.seq = @ + 1, !.sent = @ + 1,
                                  !.p2d = Put(@, coord.next, dev)]
    /\ UNCHANGED loopstate

\* the routing tables: the coordinator's map of every particle, of this rank
\* and of the others, to its device; sent while the particles are set up,
\* before anything is launched
CoordBroadcast ==
    /\ CoordReady
    /\ coord.bcast < MaxBcast
    /\ coord.launch = 0 /\ coord.ctl = 0 /\ coord.peer = 0
    /\ Enqueue(NELBroadcastParticlesMSG(coord.p2d))
    /\ coord' = [coord EXCEPT !.bcast = @ + 1, !.seq = @ + 1, !.sent = @ + 1]
    /\ UNCHANGED loopstate

CoordRegister == 0 \in Created /\ Control(ReceiveRegisterPDMSG(0, LateOp))

CoordParameters ==
    \E pid \in Created : Control(ReceiveParametersPDMSG(<<"coord", coord.seq>>, pid))

CoordSave == Control(NELSaveModel(<<"coord", coord.seq>>))

\* teardown: no acknowledgment
CoordCleanup ==
    /\ CoordReady
    /\ coord.ctl < MaxCtl
    /\ Enqueue(NodeEvtLoopCleanupMSG)
    /\ coord' = [coord EXCEPT !.ctl = @ + 1, !.seq = @ + 1]
    /\ UNCHANGED loopstate

\* bayes_infer creates its particles, then launches
SetUp == coord.next = NPids

\* p_launch(pid, op, args) on a particle: the arguments are host resident
CoordLaunch ==
    /\ CoordReady
    /\ coord.launch < MaxLaunch
    /\ SetUp
    /\ \E pid \in Created : \E op \in Receive(pid) \cup {UnknownOp} :
        Enqueue(ReceiveFuncPDMSG(<<"coord", coord.seq>>, pid, op, Val("x", <<>>)))
    /\ coord' = [coord EXCEPT !.launch = @ + 1, !.seq = @ + 1]
    /\ UNCHANGED loopstate

\* a particle of another rank sends an invocation request to a local particle
PeerFunc ==
    /\ Receptive
    /\ coord.peer < MaxPeer
    /\ \E pid \in Created \ {0} : \E op \in {"RET", UnknownOp} :
        Enqueue(ReceiveFuncMSG(<<RemotePid, coord.seq>>, pid, op, Val("x", <<>>)))
    /\ coord' = [coord EXCEPT !.peer = @ + 1, !.seq = @ + 1]
    /\ UNCHANGED loopstate

\* a particle of another rank asks for the parameters of a local particle
PeerGet ==
    /\ Receptive
    /\ coord.peer < MaxPeer
    /\ \E pid \in Created \ {0} :
        Enqueue(ReceiveGetMSG(coord.seq, RemotePid, pid))
    /\ coord' = [coord EXCEPT !.peer = @ + 1, !.seq = @ + 1]
    /\ UNCHANGED loopstate

\* another rank acknowledges a get: at most one acknowledgment per pending future
PeerGetAck ==
    /\ Receptive
    /\ coord.ctl < MaxCtl
    /\ \E fid \in (DOMAIN future_to_particle) \ coord.acked :
        /\ Enqueue(ReceiveGetAckMSG(fid, RemotePid))
        /\ coord' = [coord EXCEPT !.ctl = @ + 1, !.seq = @ + 1,
                                  !.acked = @ \cup {fid}]
    /\ UNCHANGED loopstate

\* ---------------------------------------------------------------------
\* The dispatch context
\* ---------------------------------------------------------------------
env == <<in_queue, coord>>

Top == stack[Len(stack)]
AtTop(k) == stack # <<>> /\ Top.k = k
Dispatching(kind) == AtTop("disp") /\ Top.msg.kind = kind

\* a frame of _dispatch(msg); by is "top" (called by _start_event_loop),
\* "pump" or "replay" (called by the _wait frame below it)
DispFrame(msg, by) == [k |-> "disp", msg |-> msg, by |-> by]

Logged(msg, ctx, mode) ==
    [hist EXCEPT !.dlog = Append(@, [seq |-> msg.seq, ctx |-> ctx, mode |-> mode])]

\* the handler frames on the stack: each sits inside the try block of its
\* caller (send, lines 462-467; _dispatch, lines 278-283), which puts the
\* exception on out_queue, calls _cleanup and raises it again
Catchers(stk) == Len(SelectSeq(stk, LAMBDA f : f.k = "fn"))

\* _cleanup(): dispatches a cleanup message and drops what _dispatch returns
Cleanup == TRUE

\* an exception raised in the dispatch context with the frames stk below it:
\* every enclosing try block forwards it, then it leaves _start_event_loop
Raise(name, id, stk) ==
    /\ Cleanup
    /\ out_queue' = out_queue \o [i \in 1 .. Catchers(stk) |-> Error(name, id)]
    /\ stack' = <<>>
    /\ loop' = "crashed"

\* _dispatch returns go to its caller
FinishDispatch(go) ==
    /\ stack' = Front(stack)
    /\ loop' = IF Top.by = "top" /\ ~go THEN "returned" ELSE loop

\* a faulty variant: the newest message is taken
QueueGetLast(q) == [msg |-> Last(q), rest |-> Front(q)]
\* self.in_queue.get() on a queue that is not empty: the message and the rest
QueueGet(q) == [msg |-> Head(q), rest |-> Tail(q)]

\* _start_event_loop: msg = self.in_queue.get(); go = self._dispatch(msg)
StartEventLoop ==
    /\ loop = "running"
    /\ stack = <<>>
    /\ in_queue # <<>>
    /\ in_queue' = QueueGet(in_queue).rest
    /\ stack' = <<DispFrame(QueueGet(in_queue).msg, "top")>>
    /\ hist' = Logged(QueueGet(in_queue).msg, 0, "top")
    /\ UNCHANGED <<coord, out_queue, peer_queue, tables, futures, results,
                   devstate, view_caches, saved, threads, loop>>

\* a faulty variant: every particle is put on the first device
InitDeviceFirst(msg) == 0
\* self._particle_to_device[msg.pid] = msg.device (line 228)
InitDevice(msg) == msg.device

\* _dispatch, ReceiveParticleInitPDMSG
DispatchParticleInit ==
    /\ Dispatching("ReceiveParticleInitPDMSG")
    /\ hist' = [hist EXCEPT !.initdev = Put(@, Top.msg.pid, Top.msg.device)]
    /\ LET msg == Top.msg IN
        /\ particle_to_rank' = Put(particle_to_rank, msg.pid, Rank)
        /\ particle_to_device' = Put(particle_to_device, msg.pid, InitDevice(msg))
        /\ IF CacheContains(caches[msg.device], msg.pid)
           THEN /\ Raise("ValueError", 0, stack)
                /\ UNCHANGED <<caches, hooks, particle_to_futures>>
           ELSE /\ caches' = [caches EXCEPT ![msg.device] = CacheCreate(@, msg.pid)]
                /\ hooks' = Put(hooks, msg.pid, msg.receive)
                /\ particle_to_futures' = Put(particle_to_futures, msg.pid, {})
                /\ out_queue' = Append(out_queue,
                                       Ack("ReceiveParticleInitAckPDMSG", <<>>, None))
                /\ FinishDispatch(TRUE)
    /\ UNCHANGED <<env, peer_queue, has_queues, results_lock, future_id, future_to_particle,
                   results, device_to_pthread, view_caches, saved, threads>>

\* _dispatch, ReceiveRegisterPDMSG
DispatchRegister ==
    /\ Dispatching("ReceiveRegisterPDMSG")
    /\ LET msg == Top.msg IN
        IF msg.pid \in DOMAIN hooks
        THEN /\ hooks' = [hooks EXCEPT ![msg.pid] = @ \cup {msg.msg}]
             /\ out_queue' = Append(out_queue, Ack("ReceiveRegisterAckPDMSG", <<>>, None))
             /\ FinishDispatch(TRUE)
        ELSE /\ Raise("KeyError", 0, stack)
             /\ UNCHANGED hooks
    /\ UNCHANGED <<env, peer_queue, has_queues, results_lock, particle_to_rank,
                   particle_to_device,
                   futures, results, devstate, view_caches, saved, threads, hist>>

\* _dispatch, ReceiveParametersPDMSG
DispatchParameters ==
    /\ Dispatching("ReceiveParametersPDMSG")
    /\ LET msg == Top.msg
           cs == ContextSwitch(msg.pid, FALSE)
       IN  /\ cs.st # "block"
           /\ device_to_pthread' = cs.d2p
           /\ caches' = cs.caches
           /\ IF cs.st = "ok"
              THEN /\ out_queue' = Append(out_queue,
                        Ack("ReceiveParametersAckPDMSG", msg.pid_fid, Val("params", <<>>)))
                   /\ FinishDispatch(TRUE)
              ELSE Raise("KeyError", 0, stack)
    /\ UNCHANGED <<env, peer_queue, tables, futures, results, view_caches, saved,
                   threads, hist>>

RECURSIVE Ascending(_)
Ascending(S) ==
    IF S = {} THEN <<>>
    ELSE LET m == CHOOSE x \in S : \A y \in S : x <= y IN <<m>> \o Ascending(S \ {m})

\* the particles of the device map the cache of their device does not hold
Foreign == {pid \in DOMAIN particle_to_device :
               ~CacheContains(caches[particle_to_device[pid]], pid)}

\* _dispatch, NELSaveModel: save_to_disk(pid) on the cache of its device for every
\* particle of the device map; for a particle the cache does not hold the call
\* either writes a file or raises
DispatchSave ==
    /\ Dispatching("NELSaveModel")
    /\ LET calls == Ascending(DOMAIN particle_to_device) IN
        \E raises \in (IF Foreign = {} THEN {FALSE} ELSE BOOLEAN) :
            /\ saved' = IF raises
                         THEN SelectSeq(calls, LAMBDA p : \A f \in Foreign : p < f)
                         ELSE calls
            /\ hist' = [hist EXCEPT !.saves = @ \cup
                            {[token |-> Top.msg.pid_fid, calls |-> saved',
                              local |-> DOMAIN particle_to_rank]}]
            /\ IF raises
               THEN Raise("KeyError", 0, stack)
               ELSE /\ out_queue' = Append(out_queue,
                            Ack("NELSaveModelAckPDMSG", Top.msg.pid_fid, None))
                    /\ FinishDispatch(TRUE)
    /\ UNCHANGED <<env, peer_queue, tables, futures, results, devstate, view_caches,
                   threads>>

\* _dispatch, NELBroadcastParticlesMSG
DispatchBroadcast ==
    /\ Dispatching("NELBroadcastParticlesMSG")
    /\ has_queues' = TRUE
    /\ particle_to_device' = Top.msg.particle_to_device
    /\ out_queue' = Append(out_queue, Ack("NELBroadcastParticlesAckMSG", <<>>, None))
    /\ FinishDispatch(TRUE)
    /\ UNCHANGED <<env, peer_queue, particle_to_rank, hooks, results_lock, futures,
                   results,
                   devstate, view_caches, saved, threads, hist>>

\* _dispatch, NodeEvtLoopCleanupMSG
DispatchCleanup ==
    /\ Dispatching("NodeEvtLoopCleanupMSG")
    /\ FinishDispatch(FALSE)
    /\ hist' = [hist EXCEPT !.teardown = TRUE]
    /\ UNCHANGED <<env, out_queue, peer_queue, tables, futures, results, devstate,
                   view_caches, saved, threads>>

\* _dispatch, ReceiveGetAckMSG: no branch handles it, _dispatch returns True
DispatchUnhandled ==
    /\ Dispatching("ReceiveGetAckMSG")
    /\ FinishDispatch(TRUE)
    /\ UNCHANGED <<env, out_queue, peer_queue, tables, futures, results, devstate,
                   view_caches, saved, threads, hist>>

\* ---------------------------------------------------------------------
\* Futures
\* ---------------------------------------------------------------------
\* _create_future_id: the id handed out
CreateFutureId == future_id
\* a faulty variant: the counter is not advanced
NextFutureIdStuck == future_id
\* _create_future_id: the counter afterwards
NextFutureId == future_id + 1

\* a faulty variant: the future is entered in the pending set only
NewFutureUnmapped(pid) ==
    /\ future_id' = NextFutureId
    /\ particle_to_futures' =
           [particle_to_futures EXCEPT ![pid] = @ \cup {CreateFutureId}]
    /\ future_to_particle' = future_to_particle
\* _register_future(pid, fid) after _create_future_id()
NewFuture(pid) ==
    /\ future_id' = NextFutureId
    /\ particle_to_futures' =
           [particle_to_futures EXCEPT ![pid] = @ \cup {CreateFutureId}]
    /\ future_to_particle' = Put(future_to_particle, CreateFutureId, pid)

Issued(h, pid) == [h EXCEPT !.issued = Append(@, [fid |-> CreateFutureId, pid |-> pid])]

\* detach_to_device / detach_to_cpu (push/lib/utils.py)
DetachToDevice(dev, v) == [v EXCEPT !.loc = <<dev>>]
DetachToCpu(v) == [v EXCEPT !.loc = <<>>]

\* ---------------------------------------------------------------------
\* Invocation requests
\* ---------------------------------------------------------------------
\* Particle(self, pid_device, pid, module, state) running fn: module is the
\* particle whose module the handle is bound to
FnFrame(pid, op, via, args) ==
    [k |-> "fn", pid |-> pid, op |-> op, pc |-> 1, via |-> via, args |-> args,
     last |-> None, fut |-> <<>>, module |-> pid, f0 |-> future_id]

Instr == Prog(Top.op)[Top.pc]
Executing(i) == AtTop("fn") /\ Instr.i = i

\* a faulty variant: the handler table is not consulted
HasHandlerAlways(pid, op) == TRUE
\* msg_name in self._hooks[pid] (lines 182 and 272)
HasHandler(pid, op) == op \in hooks[pid]

Dropped(h, msg) ==
    [h EXCEPT !.dropped = @ \cup {[seq |-> msg.seq, kind |-> msg.kind]}]

\* _dispatch, ReceiveFuncPDMSG, up to the call of the handler
DispatchFuncPD ==
    /\ Dispatching("ReceiveFuncPDMSG")
    /\ LET msg == Top.msg
           pid == msg.pid_to
           cs == ContextSwitch(pid, FALSE)
       IN  IF pid \notin DOMAIN hooks
           THEN /\ Raise("KeyError", 0, stack)
                /\ UNCHANGED <<devstate, hist>>
           ELSE IF ~HasHandler(pid, msg.msg)
           THEN /\ FinishDispatch(TRUE)
                /\ hist' = Dropped(hist, msg)
                /\ UNCHANGED <<out_queue, devstate>>
           ELSE /\ cs.st # "block"
                /\ device_to_pthread' = cs.d2p
                /\ caches' = cs.caches
                /\ UNCHANGED hist
                /\ IF cs.st = "ok"
                   THEN /\ stack' = Append(stack, FnFrame(pid, msg.msg, "PD", msg.args))
                        /\ UNCHANGED <<out_queue, loop>>
                   ELSE Raise("KeyError", 0, stack)
    /\ UNCHANGED <<env, peer_queue, tables, futures, results, view_caches, saved,
                   threads>>

\* _dispatch, ReceiveFuncMSG: the module returned by the context switch is not
\* bound (line 186), so building the Particle (line 187) raises UnboundLocalError
DispatchFuncMSG ==
    /\ Dispatching("ReceiveFuncMSG")
    /\ LET msg == Top.msg
           pid == msg.pid
           cs == ContextSwitch(pid, FALSE)
       IN  IF pid \notin DOMAIN hooks
           THEN /\ Raise("KeyError", 0, stack)
                /\ UNCHANGED <<devstate, hist>>
           ELSE IF ~HasHandler(pid, msg.msg_name)
           THEN /\ FinishDispatch(TRUE)
                /\ hist' = Dropped(hist, msg)
                /\ UNCHANGED <<out_queue, devstate>>
           ELSE /\ cs.st # "block"
                /\ device_to_pthread' = cs.d2p
                /\ caches' = cs.caches
                /\ hist' = [hist EXCEPT !.xreq = @ \cup {msg.pid_fid}]
                /\ Raise(IF cs.st = "ok" THEN "UnboundLocalError" ELSE "KeyError",
                         0, stack)
    /\ UNCHANGED <<env, peer_queue, tables, futures, results, view_caches, saved,
                   threads>>

\* _dispatch, ReceiveGetMSG: pid is not bound in this branch (line 194)
DispatchGet ==
    /\ Dispatching("ReceiveGetMSG")
    /\ Raise(IF Top.msg.pid \in DOMAIN particle_to_device
             THEN "UnboundLocalError" ELSE "KeyError", 0, stack)
    /\ hist' = [hist EXCEPT !.greq = @ \cup {[fid |-> Top.msg.pid_fid,
                                               pid |-> Top.msg.pid]}]
    /\ UNCHANGED <<env, peer_queue, tables, futures, results, devstate, view_caches,
                   saved, threads>>

\* a handler returns to _dispatch (ReceiveFuncPDMSG): acknowledge, return True
ReturnToDispatch ==
    /\ Executing("ret")
    /\ Top.via = "PD"
    /\ LET y == CASE Instr.what = "args" -> Top.args
                  [] Instr.what = "last" -> Top.last
                  [] OTHER -> None
           d == stack[Len(stack) - 1]
       IN  /\ out_queue' = Append(out_queue, Ack("ReceiveFuncAckPDMSG", d.msg.pid_fid, y))
           /\ stack' = SubSeq(stack, 1, Len(stack) - 2)
    /\ UNCHANGED <<env, peer_queue, tables, futures, results, devstate, view_caches,
                   saved, threads, loop, hist>>

\* a handler raises
HandlerRaise ==
    /\ Executing("raise")
    /\ Raise("Exception", hist.nraise + 1, stack)
    /\ hist' = [hist EXCEPT !.nraise = @ + 1]
    /\ UNCHANGED <<env, peer_queue, tables, futures, results, devstate, view_caches,
                   saved, threads>>

\* ---------------------------------------------------------------------
\* Compute operations and their worker threads
\* ---------------------------------------------------------------------
\* self._device_to_pthread[dev] = (pid, t) on an OrderedDict
SetKey(d2p, dev, pid, t) ==
    IF Find(d2p, dev) = <<>>
    THEN Append(d2p, [dev |-> dev, pid |-> pid, t |-> t])
    ELSE [n \in 1 .. Len(d2p) |->
            IF d2p[n].dev = dev THEN [dev |-> dev, pid |-> pid, t |-> t] ELSE d2p[n]]

Advance(f, fut) == [f EXCEPT !.pc = @ + 1, !.fut = fut]
ReplaceTop(f) == Append(Front(stack), f)

\* zero_grad / forward / step / scheduler_step: register a future, context
\* switch, start the worker thread, return PFuture(..., t=t)
Launch(kind, pin) ==
    /\ Executing(kind)
    /\ LET pid == Top.pid
           cs == ContextSwitch(pid, pin)
           fid == CreateFutureId
           dev == particle_to_device[pid]
       IN  /\ cs.st # "block"
           /\ NewFuture(pid)
           /\ hist' = Issued(hist, pid)
           /\ caches' = cs.caches
           /\ IF cs.st = "ok"
              THEN /\ device_to_pthread' = SetKey(cs.d2p, dev, pid, fid)
                   /\ threads' = Put(threads, fid,
                          [pid |-> pid, dev |-> dev, kind |-> kind, st |-> "run"])
                   /\ stack' = ReplaceTop(Advance(Top, <<fid>>))
                   /\ UNCHANGED <<out_queue, loop>>
              ELSE /\ device_to_pthread' = cs.d2p
                   /\ Raise("KeyError", 0, stack)
                   /\ UNCHANGED threads
    /\ UNCHANGED <<env, peer_queue, tables, results, view_caches, saved>>

ZeroGrad == Launch("zero_grad", FALSE)
Forward == Launch("forward", FALSE)
\* a faulty variant: the module is not pinned
StepUnpinned == Launch("step", FALSE)
Step == Launch("step", TRUE)
SchedulerStep == Launch("sched", TRUE)

\* what a worker stores under its future id when it runs to completion
WorkerResult(kind, dev) ==
    CASE kind = "zero_grad" -> None
      [] kind = "forward" -> Val("y", <<dev>>)
      [] kind = "step" -> Val("loss", <<dev>>)
      [] OTHER -> None
\* scheduler_step.worker stores nothing
WorkerStores(kind) == kind # "sched"
\* zero_grad.worker has no try block
WorkerCatches(kind) == kind # "zero_grad"

\* step.worker: optim.step() updates the parameters of the module in place
Update(cs, kind, dev, pid) ==
    IF kind = "step" THEN [cs EXCEPT ![dev].val[pid] = @ + 1] ELSE cs

\* a worker thread runs to completion
WorkerReturn ==
    /\ \E t \in DOMAIN threads :
        /\ threads[t].st = "run"
        /\ threads' = [threads EXCEPT ![t].st = "done"]
        /\ caches' = Update(caches, threads[t].kind, threads[t].dev, threads[t].pid)
        /\ results' = IF WorkerStores(threads[t].kind)
                      THEN Put(results, t, WorkerResult(threads[t].kind, threads[t].dev))
                      ELSE results
    /\ UNCHANGED <<env, out_queue, peer_queue, tables, futures, device_to_pthread,
                   view_caches, saved, stack, loop, hist>>

\* the computation of a worker thread raises
WorkerRaise ==
    /\ hist.nraise < MaxRaise
    /\ \E t \in DOMAIN threads :
        /\ threads[t].st = "run"
        /\ threads' = [threads EXCEPT ![t].st = "raised"]
        /\ Cleanup
        /\ out_queue' = IF WorkerCatches(threads[t].kind)
                        THEN Append(out_queue, Error("Exception", hist.nraise + 1))
                        ELSE out_queue
    /\ hist' = [hist EXCEPT !.nraise = @ + 1]
    /\ UNCHANGED <<env, peer_queue, tables, futures, results, devstate, view_caches,
                   saved, stack, loop>>

\* ---------------------------------------------------------------------
\* send
\* ---------------------------------------------------------------------
SendFrame(from, to, fid) ==
    [k |-> "send", from |-> from, to |-> to, fid |-> fid, y |-> None]

\* send, lines 443-463 and 475-481: up to the call of the handler (same rank)
\* or to the return of the future (other rank)
Send ==
    /\ Executing("send")
    /\ LET pid_curr == Top.pid
           pid == Target(pid_curr, Instr.to)
           fid == CreateFutureId
           cs == ContextSwitch(pid, FALSE)
           remote == pid \notin Pids
       IN  /\ NewFuture(pid_curr)
           /\ hist' = [Issued(hist, pid_curr) EXCEPT !.xsend =
                          IF remote THEN @ \cup {fid} ELSE @]
           /\ IF pid_curr \notin DOMAIN particle_to_rank
                 \/ pid \notin DOMAIN particle_to_rank
              THEN /\ Raise("KeyError", 0, stack)
                   /\ UNCHANGED <<peer_queue, devstate>>
              ELSE IF particle_to_rank[pid] = particle_to_rank[pid_curr]
              THEN /\ cs.st # "block"
                   /\ device_to_pthread' = cs.d2p
                   /\ caches' = cs.caches
                   /\ UNCHANGED peer_queue
                   /\ IF cs.st = "ok" /\ Instr.op \in hooks[pid]
                      THEN /\ stack' = stack \o
                                <<SendFrame(pid_curr, pid, fid),
                                  FnFrame(pid, Instr.op, "send",
                                          DetachToDevice(particle_to_device[pid], Top.args))>>
                           /\ UNCHANGED <<out_queue, loop>>
                      ELSE Raise("KeyError", 0, stack)
              ELSE IF has_queues
              THEN /\ peer_queue' = Append(peer_queue,
                          ReceiveFuncMSG(<<pid_curr, fid>>, pid, Instr.op,
                                         DetachToCpu(Top.args)))
                   /\ stack' = ReplaceTop(Advance(Top, <<fid>>))
                   /\ UNCHANGED <<out_queue, loop, devstate>>
              ELSE /\ Raise("KeyError", 0, stack)
                   /\ UNCHANGED <<peer_queue, devstate>>
    /\ UNCHANGED <<env, tables, results, view_caches, saved, threads>>

\* the handler called by send returns (line 463)
ReturnToSend ==
    /\ Executing("ret")
    /\ Top.via = "send"
    /\ LET y == CASE Instr.what = "args" -> Top.args
                  [] Instr.what = "last" -> Top.last
                  [] OTHER -> None
           sf == stack[Len(stack) - 1]
       IN  /\ stack' = Append(SubSeq(stack, 1, Len(stack) - 2), [sf EXCEPT !.y = y])
           /\ hist' = [hist EXCEPT !.hret = Put(@, sf.fid, y)]
    /\ UNCHANGED <<env, out_queue, peer_queue, tables, futures, results, devstate,
                   view_caches, saved, threads, loop>>

\* a faulty variant: the handler's value is dropped
StoreResultNone(res, fid, y) == Put(res, fid, None)
\* self._results[fid] = y (line 468)
StoreResult(res, fid, y) == Put(res, fid, y)

\* a faulty variant: the sender's module is not switched back in
SwitchBackSkipped(pid_curr) ==
    [st |-> "ok", d2p |-> device_to_pthread, caches |-> caches]
\* send, line 471: self._context_switch_module(pid_curr, msg='send switch back')
SwitchBack(pid_curr) == ContextSwitch(pid_curr, FALSE)

\* send, lines 468-474: store the result, switch the sender's module back in
SendReturn ==
    /\ AtTop("send")
    /\ LET sf == Top
           cs == SwitchBack(sf.from)
           caller == stack[Len(stack) - 1]
       IN  /\ cs.st # "block"
           /\ results' = StoreResult(results, sf.fid, sf.y)
           /\ device_to_pthread' = cs.d2p
           /\ caches' = cs.caches
           /\ IF cs.st = "ok"
              THEN /\ stack' = Append(SubSeq(stack, 1, Len(stack) - 2),
                                      [Advance(caller, <<sf.fid>>) EXCEPT
                                          !.module = sf.from])
                   /\ UNCHANGED <<out_queue, loop>>
              ELSE Raise("KeyError", 0, Front(stack))
    /\ UNCHANGED <<env, peer_queue, tables, futures, view_caches, saved, threads, hist>>

\* ---------------------------------------------------------------------
\* get
\* ---------------------------------------------------------------------
\* ParticleView(cache, pid): a lazy view, it reads the entry of pid in the view
\* cache of device dev whenever it is used
ParticleView(dev, pid) == [v |-> "view", loc |-> <<dev>>, pid |-> pid]

\* the view cache after the entry of pid on dev was created, if it was not there
ViewEntry(vc, dev, pid) ==
    IF CacheContains(vc[dev], pid) THEN vc ELSE [vc EXCEPT ![dev] = CacheCreate(@, pid)]

\* a faulty variant: the parameters are not copied into the view
CopyParametersSkipped(c, pid, val) == c
\* get, lines 513-517: param.copy_(p) for every parameter of the view's module
CopyParameters(c, pid, val) == [c EXCEPT !.val = Put(@, pid, val)]

\* get(pid_curr, pid)
Get ==
    /\ Executing("get")
    /\ LET pid_curr == Top.pid
           pid == Target(pid_curr, Instr.to)
           fid == CreateFutureId
           cs == ContextSwitch(pid, FALSE)
       IN  /\ NewFuture(pid_curr)
           /\ IF pid_curr \notin DOMAIN particle_to_rank
                 \/ pid \notin DOMAIN particle_to_rank
              THEN /\ Raise("KeyError", 0, stack)
                   /\ hist' = Issued(hist, pid_curr)
                   /\ UNCHANGED <<peer_queue, devstate, view_caches, results>>
              ELSE IF particle_to_rank[pid] = particle_to_rank[pid_curr]
              THEN /\ cs.st # "block"
                   /\ device_to_pthread' = cs.d2p
                   /\ caches' = cs.caches
                   /\ UNCHANGED peer_queue
                   /\ IF cs.st = "ok"
                      THEN LET device_curr == particle_to_device[pid_curr]
                               val == caches[particle_to_device[pid]].val[pid]
                           IN  /\ view_caches' =
                                      [ViewEntry(view_caches, device_curr, pid) EXCEPT
                                          ![device_curr] = CopyParameters(@, pid, val)]
                               /\ results' = Put(results, fid, ParticleView(device_curr, pid))
                               /\ stack' = ReplaceTop(Advance(Top, <<fid>>))
                               /\ hist' = [Issued(hist, pid_curr) EXCEPT !.gets =
                                              Append(@, [fid |-> fid, dev |-> device_curr,
                                                         pid |-> pid, val |-> val])]
                               /\ UNCHANGED <<out_queue, loop>>
                      ELSE /\ Raise("KeyError", 0, stack)
                           /\ hist' = Issued(hist, pid_curr)
                           /\ UNCHANGED <<view_caches, results>>
              ELSE IF has_queues
              THEN /\ peer_queue' = Append(peer_queue, ReceiveGetMSG(fid, pid_curr, pid))
                   /\ stack' = ReplaceTop(Advance(Top, <<fid>>))
                   /\ hist' = Issued(hist, pid_curr)
                   /\ UNCHANGED <<out_queue, loop, devstate, view_caches, results>>
              ELSE /\ Raise("KeyError", 0, stack)
                   /\ hist' = Issued(hist, pid_curr)
                   /\ UNCHANGED <<peer_queue, devstate, view_caches, results>>
    /\ UNCHANGED <<env, tables, saved, threads>>

\* ---------------------------------------------------------------------
\* wait
\* ---------------------------------------------------------------------
WaitFrame(fid, id) ==
    [k |-> "wait", fid |-> fid, id |-> id, msgs |-> <<>>, phase |-> "pump",
     i |-> 1, res |-> None]

\* a faulty variant: the future stays in the future-to-particle map
CheckResultsKeep(fid, res) ==
    IF fid \in DOMAIN res
    THEN [found |-> TRUE, result |-> res[fid], results |-> Drop(res, fid),
          err |-> FALSE, f2p |-> future_to_particle,
          p2f |-> [particle_to_futures EXCEPT
                      ![future_to_particle[fid]] = @ \ {fid}]]
    ELSE [found |-> FALSE, result |-> None, results |-> res, err |-> FALSE,
          f2p |-> future_to_particle, p2f |-> particle_to_futures]

\* _wait.check_results(fid) on the results map res:
\* found, the result, and the three maps afterwards; err when a pop raises
CheckResults(fid, res) ==
    IF fid \in DOMAIN res
    THEN [found |-> TRUE, result |-> res[fid], results |-> Drop(res, fid),
          err |-> fid \notin DOMAIN future_to_particle,
          f2p |-> Drop(future_to_particle, fid),
          p2f |-> IF fid \in DOMAIN future_to_particle
                  THEN [particle_to_futures EXCEPT
                            ![future_to_particle[fid]] = @ \ {fid}]
                  ELSE particle_to_futures]
    ELSE [found |-> FALSE, result |-> None, results |-> res, err |-> FALSE,
          f2p |-> future_to_particle, p2f |-> particle_to_futures]

\* PFuture.wait() joins the worker thread of the future, if it has one
Joined(t) == ~Running(t)

Consumed(h, fid, y) ==
    [h EXCEPT !.consumed = Append(@, fid), !.wret = Put(@, fid, y)]

\* PFuture.wait(), then _wait(fid), lines 349-351: the first check of the results
Wait ==
    /\ Executing("wait")
    /\ LET fid == Top.fut[1]
           c == CheckResults(fid, results)
       IN  /\ Joined(fid)
           /\ results' = c.results
           /\ future_to_particle' = c.f2p
           /\ particle_to_futures' = c.p2f
           /\ IF c.err
              THEN /\ Raise("KeyError", 0, stack)
                   /\ UNCHANGED hist
              ELSE IF c.found
              THEN /\ stack' = ReplaceTop([Top EXCEPT !.pc = @ + 1, !.last = c.result])
                   /\ hist' = Consumed(hist, fid, c.result)
                   /\ UNCHANGED <<out_queue, loop>>
              ELSE /\ stack' = Append(stack, WaitFrame(fid, hist.nwait + 1))
                   /\ hist' = [hist EXCEPT !.nwait = @ + 1]
                   /\ UNCHANGED <<out_queue, loop>>
    /\ UNCHANGED <<env, peer_queue, tables, future_id, devstate, view_caches, saved,
                   threads>>

Pumping == AtTop("wait") /\ Top.phase = "pump" /\ in_queue # <<>>

\* a faulty variant: get acknowledgments are buffered like invocation requests
IsFuncOrAck(msg) ==
    msg.kind \in {"ReceiveFuncMSG", "ReceiveFuncPDMSG", "ReceiveGetAckMSG"}
\* line 356: the messages _wait buffers
IsFunc(msg) == msg.kind \in {"ReceiveFuncMSG", "ReceiveFuncPDMSG"}

\* _wait, lines 352-355: a get acknowledgment is handled inline
\* (_dispatch_receive_get_ack) and the results are checked again
\* ghost: the _wait frame w handled the acknowledgment msg inline
Inlined(h, msg, w) ==
    [h EXCEPT !.inl = @ \cup {[fid |-> msg.fid, awaited |-> w.fid, ctx |-> w.id]}]

WaitGetAck ==
    /\ Pumping
    /\ QueueGet(in_queue).msg.kind = "ReceiveGetAckMSG"
    /\ in_queue' = QueueGet(in_queue).rest
    /\ LET msg == QueueGet(in_queue).msg
           dev == particle_to_device[msg.pid]
           stored == Put(results, msg.fid, ParticleView(dev, msg.pid))
           c == CheckResults(Top.fid, stored)
       IN  IF msg.pid \notin DOMAIN particle_to_device
           THEN /\ Raise("KeyError", 0, stack)
                /\ hist' = Logged(msg, Top.id, "pump")
                /\ UNCHANGED <<results, future_to_particle, particle_to_futures,
                               view_caches>>
           ELSE /\ view_caches' = ViewEntry(view_caches, dev, msg.pid)
                /\ results' = c.results
                /\ future_to_particle' = c.f2p
                /\ particle_to_futures' = c.p2f
                /\ IF c.err
                   THEN /\ Raise("KeyError", 0, stack)
                        /\ hist' = Inlined(Logged(msg, Top.id, "pump"), msg, Top)
                   ELSE IF c.found
                   THEN /\ stack' = ReplaceTop([Top EXCEPT !.phase = "replay",
                                                           !.res = c.result])
                        /\ hist' = Consumed(Inlined(Logged(msg, Top.id, "pump"), msg, Top), Top.fid, c.result)
                        /\ UNCHANGED <<out_queue, loop>>
                   ELSE /\ hist' = Inlined(Logged(msg, Top.id, "pump"), msg, Top)
                        /\ UNCHANGED <<out_queue, loop, stack>>
    /\ UNCHANGED <<coord, peer_queue, tables, future_id, devstate, saved, threads>>

\* _wait, lines 356-359: an invocation request is buffered
WaitBuffer ==
    /\ Pumping
    /\ IsFunc(QueueGet(in_queue).msg)
    /\ in_queue' = QueueGet(in_queue).rest
    /\ stack' = ReplaceTop([Top EXCEPT !.msgs = Append(@, QueueGet(in_queue).msg)])
    /\ hist' = [hist EXCEPT !.buf =
                   Put(@, Top.id, (IF Top.id \in DOMAIN @ THEN @[Top.id] ELSE <<>>)
                                   \o <<QueueGet(in_queue).msg.seq>>)]
    /\ UNCHANGED <<coord, out_queue, peer_queue, tables, futures, results, devstate,
                   view_caches, saved, threads, loop>>

\* _wait, lines 360-362: any other message is dispatched at once
WaitDispatch ==
    /\ Pumping
    /\ ~IsFunc(QueueGet(in_queue).msg)
    /\ QueueGet(in_queue).msg.kind # "ReceiveGetAckMSG"
    /\ in_queue' = QueueGet(in_queue).rest
    /\ stack' = Append(stack, DispFrame(QueueGet(in_queue).msg, "pump"))
    /\ hist' = Logged(QueueGet(in_queue).msg, Top.id, "pump")
    /\ UNCHANGED <<coord, out_queue, peer_queue, tables, futures, results, devstate,
                   view_caches, saved, threads, loop>>

\* a faulty variant: the buffer is walked from its end
NextBufferedLast(w) == w.msgs[Len(w.msgs) + 1 - w.i]
\* for msg in msgs (line 365): the message of the current iteration
NextBuffered(w) == w.msgs[w.i]

\* _wait, lines 365-366: the buffered messages are dispatched in turn
WaitReplay ==
    /\ AtTop("wait")
    /\ Top.phase = "replay"
    /\ Top.i <= Len(Top.msgs)
    /\ stack' = Append(ReplaceTop([Top EXCEPT !.i = @ + 1]),
                       DispFrame(NextBuffered(Top), "replay"))
    /\ hist' = Logged(NextBuffered(Top), Top.id, "replay")
    /\ UNCHANGED <<env, out_queue, peer_queue, tables, futures, results, devstate,
                   view_caches, saved, threads, loop>>

\* _wait, line 368: return the result to the handler that waited
WaitReturn ==
    /\ AtTop("wait")
    /\ Top.phase = "replay"
    /\ Top.i > Len(Top.msgs)
    /\ LET caller == stack[Len(stack) - 1] IN
        stack' = Append(SubSeq(stack, 1, Len(stack) - 2),
                        [caller EXCEPT !.pc = @ + 1, !.last = Top.res])
    /\ hist' = [hist EXCEPT !.wdone = @ \cup {Top.id}]
    /\ UNCHANGED <<env, out_queue, peer_queue, tables, futures, results, devstate,
                   view_caches, saved, threads, loop>>

\* ---------------------------------------------------------------------
\* Specification
\* ---------------------------------------------------------------------
Next ==
    \/ CoordCreate
    \/ CoordBroadcast
    \/ CoordRegister
    \/ CoordParameters
    \/ CoordSave
    \/ CoordCleanup
    \/ CoordLaunch
    \/ PeerFunc
    \/ PeerGet
    \/ PeerGetAck
    \/ StartEventLoop
    \/ DispatchParticleInit
    \/ DispatchRegister
    \/ DispatchParameters
    \/ DispatchSave
    \/ DispatchBroadcast
    \/ DispatchCleanup
    \/ DispatchUnhandled
    \/ DispatchFuncPD
    \/ DispatchFuncMSG
    \/ DispatchGet
    \/ ReturnToDispatch
    \/ HandlerRaise
    \/ ZeroGrad
    \/ Forward
    \/ Step
    \/ SchedulerStep
    \/ WorkerReturn
    \/ WorkerRaise
    \/ Send
    \/ Get
    \/ ReturnToSend
    \/ SendReturn
    \/ Wait
    \/ WaitGetAck
    \/ WaitBuffer
    \/ WaitDispatch
    \/ WaitReplay
    \/ WaitReturn

Spec == Init /\ [][Next]_vars

\* ---------------------------------------------------------------------
\* Properties
\* ---------------------------------------------------------------------
Threads == DOMAIN threads
ConsumedSet == SeqToSet(hist.consumed)
Errors(id) == SelectSeq(out_queue, LAMBDA m : m.kind = "Error" /\ m.id = id)

SameRankSendValue ==
    /\ \A f \in DOMAIN hist.wret \cap DOMAIN hist.hret : hist.wret[f] = hist.hret[f]
    /\ \A n \in 1 .. Len(stack) :
         stack[n].k = "wait" => stack[n].fid \notin DOMAIN hist.hret

\* a waited same-rank send whose handler returned its argument, moved to the
\* device of the target
SameRankSendValueWitness ==
    \E f \in DOMAIN hist.wret \cap DOMAIN hist.hret :
        /\ hist.wret[f].v = "x"
        /\ hist.wret[f].loc # <<>>

\* C3: a send to a particle of another rank has put one invocation request
\* carrying its future id on the inbound queue of the target's rank.
CrossRankSendEnqueues ==
    \A f \in hist.xsend :
        Len(SelectSeq(peer_queue, LAMBDA m : m.pid_fid[2] = f)) = 1

\* C4: when the dispatch of a cross-rank invocation request for a registered
\* handler has ended, an answer carrying the sender's id and future id has
\* been put on a queue.
CrossRankRequestAnswered ==
    \A s \in hist.xreq :
        \E n \in 1 .. Len(out_queue) : out_queue[n].pid_fid = s

\* C5: once a teardown message has been dispatched, no further message is
\* dispatched.
NoDispatchAfterTeardown == [][hist.teardown => hist.dlog' = hist.dlog]_vars

\* C6: every exception raised in a handler or in a worker thread is put
\* exactly once on out_queue.
ExceptionForwardedOnce ==
    \A id \in 1 .. hist.nraise : Len(Errors(id)) = 1

\* C7: once an exception was raised in a handler or in a worker thread, no
\* message is dispatched.
NoDispatchAfterException == [][hist.nraise > 0 => hist.dlog' = hist.dlog]_vars

\* C8 as stated: messages are dispatched in the order of their arrival.
ArrivalOrder ==
    \A i, j \in 1 .. Len(hist.dlog) :
        i < j => hist.dlog[i].seq < hist.dlog[j].seq

\* C8, amended: messages are dispatched in the order of their arrival among
\* those of one consumer and one way of consuming: those _start_event_loop
\* takes, those one _wait dispatches at once while pumping, those one _wait
\* buffered and replays.
ArrivalOrderPerConsumer ==
    \A i, j \in 1 .. Len(hist.dlog) :
        (i < j /\ hist.dlog[i].ctx = hist.dlog[j].ctx
               /\ hist.dlog[i].mode = hist.dlog[j].mode) =>
            hist.dlog[i].seq < hist.dlog[j].seq

\* a _wait replayed a buffered request after it had dispatched a message that
\* arrived later, and _start_event_loop dispatched several messages
ArrivalOrderPerConsumerWitness ==
    /\ \E i, j \in 1 .. Len(hist.dlog) :
        /\ i < j
        /\ hist.dlog[i].ctx = hist.dlog[j].ctx
        /\ hist.dlog[i].mode = "pump"
        /\ hist.dlog[j].mode = "replay"
        /\ hist.dlog[j].seq < hist.dlog[i].seq
    /\ \E i, j \in 1 .. Len(hist.dlog) :
        i < j /\ hist.dlog[i].mode = "top" /\ hist.dlog[j].mode = "top"

\* C9: the future ids issued are strictly increasing in issue order.
FutureIdsIncreasing ==
    \A i, j \in 1 .. Len(hist.issued) :
        i < j => hist.issued[i].fid < hist.issued[j].fid

\* futures issued by a compute operation and by send, interleaved
FutureIdsIncreasingWitness ==
    /\ Len(hist.issued) >= 3
    /\ \E i \in 1 .. Len(hist.issued) : hist.issued[i].fid \in Threads
    /\ \E i \in 1 .. Len(hist.issued) : hist.issued[i].fid \in DOMAIN hist.hret

\* C10: a future is registered under its owner from its creation until a wait
\* consumes its result; it is consumed at most once; after that it is in none
\* of the pending sets, the future-to-particle map and the results map.
FutureRegisteredUntilConsumed ==
    /\ \A n \in 1 .. Len(hist.issued) :
         LET f == hist.issued[n].fid
             owner == hist.issued[n].pid
         IN  IF f \in ConsumedSet
             THEN /\ f \notin DOMAIN future_to_particle
                  /\ f \notin DOMAIN results
                  /\ \A p \in DOMAIN particle_to_futures : f \notin particle_to_futures[p]
             ELSE /\ f \in DOMAIN future_to_particle
                  /\ future_to_particle[f] = owner
                  /\ f \in particle_to_futures[owner]
    /\ \A i, j \in 1 .. Len(hist.consumed) :
         i < j => hist.consumed[i] # hist.consumed[j]

\* one future consumed by a wait while another is still registered
FutureRegisteredUntilConsumedWitness ==
    /\ hist.consumed # <<>>
    /\ future_to_particle # EmptyMap
    /\ \E f \in DOMAIN future_to_particle : f \in DOMAIN results

\* C11: the values seen through the view a same-rank get returned are the
\* values the source had when get was called, whatever was done to the source
\* since (of the gets into one view-cache entry, the latest one is looked at).
GetViewFrozen ==
    \A i \in 1 .. Len(hist.gets) :
        LET g == hist.gets[i] IN
        (\A j \in (i + 1) .. Len(hist.gets) :
            hist.gets[j].dev # g.dev \/ hist.gets[j].pid # g.pid) =>
        view_caches[g.dev].val[g.pid] = g.val

\* a wait returned the view, and the source was updated by a step afterwards
GetViewFrozenWitness ==
    \E i \in 1 .. Len(hist.gets) :
        LET g == hist.gets[i] IN
        /\ g.fid \in ConsumedSet
        /\ caches[particle_to_device[g.pid]].val[g.pid] # g.val
        /\ view_caches[g.dev].val[g.pid] = g.val

\* C12: when a same-rank send returns to its caller, the module of the sender
\* is resident in the cache of the sender's device and is the module the
\* sender's particle handle is bound to.
SendRestoresSender ==
    [][(AtTop("send") /\ stack' # <<>> /\ Len(stack') = Len(stack) - 1) =>
         /\ Top.from \in SeqToSet(caches'[particle_to_device[Top.from]].res)
         /\ stack'[Len(stack')].pid = Top.from
         /\ stack'[Len(stack')].module = Top.from]_vars

\* a send of the leader has returned; its target lives on the leader's device
\* and the handler launched a step there, which took the leader's place in the
\* cache
SendRestoresSenderWitness ==
    /\ AtTop("fn")
    /\ Top.op = "MAIN"
    /\ Top.pc = 4
    /\ particle_to_device[0] = particle_to_device[1]
    /\ \E t \in Threads : threads[t].pid = 1 /\ threads[t].kind = "step"
    /\ 0 \in SeqToSet(caches[particle_to_device[0]].res)

\* the particle and the operation an invocation request names
TargetOf(msg) == IF msg.kind = "ReceiveFuncMSG" THEN msg.pid ELSE msg.pid_to
OpOf(msg) == IF msg.kind = "ReceiveFuncMSG" THEN msg.msg_name ELSE msg.msg

\* C13: the dispatch of an invocation request whose operation is not in the
\* handler table of its target only returns to its caller: no handler frame
\* is entered, no queue, table, future, result or cache changes, and the loop
\* goes on.
UnknownOperationDropped ==
    [][(/\ AtTop("disp")
        /\ IsFunc(Top.msg)
        /\ TargetOf(Top.msg) \in DOMAIN hooks
        /\ OpOf(Top.msg) \notin hooks[TargetOf(Top.msg)]
        /\ stack' # stack) =>
         /\ stack' = Front(stack)
         /\ loop' = loop
         /\ loop = "running"
         /\ UNCHANGED <<out_queue, peer_queue, tables, futures, results, devstate,
                        view_caches, saved, threads, in_queue>>]_vars

\* a request of the coordinator and a request of a peer were dropped, and a
\* message that arrived after a dropped one was dispatched
UnknownOperationDroppedWitness ==
    /\ \E e \in hist.dropped : e.kind = "ReceiveFuncMSG"
    /\ \E e \in hist.dropped : e.kind = "ReceiveFuncPDMSG"
    /\ \E e \in hist.dropped : \E n \in 1 .. Len(hist.dlog) : hist.dlog[n].seq > e.seq

\* C14: a persist request saves every particle of this event loop once, saves
\* no other particle, and is acknowledged once with its own token.
PersistSavesLocalActors ==
    \A s \in hist.saves :
        /\ SeqToSet(s.calls) = s.local
        /\ Len(s.calls) = Cardinality(s.local)
        /\ Len(SelectSeq(out_queue, LAMBDA m : /\ m.kind = "NELSaveModelAckPDMSG"
                                               /\ m.pid_fid = s.token)) = 1

CacheWithinCapacity ==
    /\ \A d \in Devices :
         /\ Len(caches[d].res) <= CacheSize
         /\ Cardinality(SeqToSet(caches[d].res)) = Len(caches[d].res)
         /\ caches[d].pin \subseteq SeqToSet(caches[d].res)
    /\ \A t \in Threads :
         (threads[t].st = "run" /\ threads[t].kind \in {"step", "sched"}) =>
            /\ threads[t].pid \in caches[threads[t].dev].pin
            /\ threads[t].pid \in SeqToSet(caches[threads[t].dev].res)

\* a full cache whose entry is pinned by a running step, after the entry of
\* another particle that had worked on the device was evicted from it
CacheWithinCapacityWitness ==
    \E d \in Devices : \E t1, t2 \in Threads :
        /\ threads[t1].dev = d /\ threads[t2].dev = d
        /\ threads[t1].pid # threads[t2].pid
        /\ threads[t2].st = "run"
        /\ threads[t2].pid \in caches[d].pin
        /\ threads[t1].pid \notin SeqToSet(caches[d].res)
        /\ Len(caches[d].res) = CacheSize

\* the particles an init message has set up
Initialised == DOMAIN hooks

\* C17: a call of _context_switch_module for an initialised particle, in any
\* state and with either pin, never fails; it is held up only while a worker
\* thread runs, and otherwise returns with the module of the particle resident.
ContextSwitchReturns ==
    \A pid \in Initialised : \A pin \in BOOLEAN :
        LET cs == ContextSwitch(pid, pin) IN
        /\ cs.st # "err"
        /\ cs.st = "block" => \E t \in Threads : threads[t].st = "run"
        /\ cs.st = "ok" =>
              pid \in SeqToSet(cs.caches[particle_to_device[pid]].res)

\* the module of a particle is not resident, the cache of its device is full
\* with the pinned module of a finished operation still recorded there: the
\* call retires that operation, makes room and returns the module
ContextSwitchReturnsWitness ==
    \E pid \in Initialised :
        LET dev == particle_to_device[pid] IN
        /\ pid \notin SeqToSet(caches[dev].res)
        /\ Len(caches[dev].res) = CacheSize
        /\ caches[dev].pin # {}
        /\ Find(device_to_pthread, dev) # <<>>
        /\ ContextSwitch(pid, FALSE).st = "ok"

\* the particle whose module the next step of the dispatch context switches in
SwitchedPid ==
    IF AtTop("disp")
    THEN IF Top.msg.kind = "ReceiveFuncPDMSG" THEN Top.msg.pid_to ELSE Top.msg.pid
    ELSE IF AtTop("send") THEN Top.from
    ELSE IF Instr.i \in {"send", "get"} THEN Target(Top.pid, Instr.to)
    ELSE Top.pid

CompletedWorkerRecorded ==
    \A t \in Threads :
        threads[t].st = "done" => (t \in DOMAIN results \/ t \in ConsumedSet)

\* the arrival numbers of the requests the wait id has replayed, in the order
\* of their dispatch
Replayed(id) ==
    LET r == SelectSeq(hist.dlog, LAMBDA e : e.ctx = id /\ e.mode = "replay")
    IN  [n \in 1 .. Len(r) |-> r[n].seq]

\* C20: the requests a wait buffered are replayed in the order they were taken
\* from the queue, each once and by nobody else, none before the result of
\* the wait was obtained and all of them when the wait has returned.
BufferedReplayedInOrder ==
    /\ \A id \in DOMAIN hist.buf :
         LET r == Replayed(id)
             b == hist.buf[id]
         IN  /\ Len(r) <= Len(b)
             /\ r = SubSeq(b, 1, Len(r))
             /\ id \in hist.wdone => r = b
             /\ \A n \in 1 .. Len(b) :
                   Len(SelectSeq(hist.dlog, LAMBDA e : e.seq = b[n])) <= 1
    /\ \A n \in 1 .. Len(stack) :
         stack[n].k = "wait" =>
            IF stack[n].phase = "pump"
            THEN Replayed(stack[n].id) = <<>>
            ELSE stack[n].fid \in ConsumedSet

\* a wait has returned after it replayed two buffered requests
BufferedReplayedInOrderWitness ==
    \E id \in hist.wdone :
        /\ id \in DOMAIN hist.buf
        /\ Len(hist.buf[id]) >= 2
        /\ Replayed(id) = hist.buf[id]

\* a pumping _wait takes from the queue an acknowledgment of a future other
\* than the one it waits for
TakesOtherAck ==
    /\ Pumping
    /\ QueueGet(in_queue).msg.kind = "ReceiveGetAckMSG"
    /\ QueueGet(in_queue).msg.fid # Top.fid
    /\ Len(in_queue') < Len(in_queue)

\* C21 as stated: an acknowledgment of another future taken by a pumping
\* wait is buffered, neither handled nor recorded before the awaited result
\* has been obtained.
OtherAckBuffered ==
    [][TakesOtherAck =>
          /\ stack' # <<>>
          /\ Last(stack').k = "wait"
          /\ Last(stack').msgs = Append(Top.msgs, QueueGet(in_queue).msg)
          /\ results' = results]_vars

\* C21, amended: an acknowledgment of another future taken by a pumping wait
\* is handled inline at once: the view entry exists, the view is recorded
\* under the acknowledged future, nothing is buffered and the wait keeps
\* pumping (a KeyError ends the loop when the acknowledged particle is not in
\* the device map); a recorded result stays until a wait consumes it.
OtherAckHandledInline ==
    /\ [][TakesOtherAck =>
            LET msg == QueueGet(in_queue).msg IN
            IF msg.pid \in DOMAIN particle_to_device
            THEN /\ results' = Put(results, msg.fid,
                                   ParticleView(particle_to_device[msg.pid], msg.pid))
                 /\ CacheContains(view_caches'[particle_to_device[msg.pid]], msg.pid)
                 /\ stack' = stack
            ELSE loop' = "crashed"]_vars
    /\ [][\A f \in DOMAIN results :
            f \in DOMAIN results' \/ f \in SeqToSet(hist'.consumed)]_vars

\* a wait handled the acknowledgment of another future inline while pumping,
\* and the view it recorded is in the results map
OtherAckHandledInlineWitness ==
    \E e \in hist.inl :
        /\ e.fid # e.awaited
        /\ e.fid \in DOMAIN results
        /\ results[e.fid].v = "view"
        /\ e.awaited \notin ConsumedSet

\* C22: when the dispatch of a remote-get request has ended, exactly one
\* acknowledgment carrying its future id and its target pid has been put on
\* the queue of the caller's rank.
RemoteGetAcknowledged ==
    \A g \in hist.greq :
        Len(SelectSeq(peer_queue, LAMBDA m : /\ m.kind = "ReceiveGetAckMSG"
                                             /\ m.fid = g.fid
                                             /\ m.pid = g.pid)) = 1

\* C23: the result of a get, recorded at call time or when the acknowledgment
\* is handled, is a view backed by the view cache of the device of the
\* particle that owns the future, and that cache has an entry for the target.
GetViewOnRequesterDevice ==
    \A f \in DOMAIN results :
        (results[f].v = "view" /\ f \in DOMAIN future_to_particle) =>
            LET from == future_to_particle[f] IN
            /\ results[f].loc = <<particle_to_device[from]>>
            /\ CacheContains(view_caches[particle_to_device[from]], results[f].pid)

\* C24: when a same-rank get returns to its caller, the module of the caller
\* is resident in the cache of the caller's device.
GetRestoresCaller ==
    [][(/\ Executing("get")
        /\ stack' # <<>>
        /\ Len(stack') = Len(stack)
        /\ Last(stack').pc = Top.pc + 1) =>
          Top.pid \in SeqToSet(caches'[particle_to_device[Top.pid]].res)]_vars

\* C25: the results map is written and entries are removed from it only
\* while the results lock is held.
ResultsAccessLocked == [][results' # results => results_lock # "free"]_vars

\* C26: a same-rank send naming an operation that is not in the handler table
\* of its target surfaces no error, leaves the loop running and returns to
\* the sending handler.
SendUnknownIgnored ==
    [][(/\ Executing("send")
        /\ Target(Top.pid, Instr.to) \in DOMAIN hooks
        /\ Top.pid \in DOMAIN particle_to_rank
        /\ Instr.op \notin hooks[Target(Top.pid, Instr.to)]
        /\ stack' # stack) =>
          /\ out_queue' = out_queue
          /\ loop' = loop
          /\ stack' # <<>>]_vars

\* the acknowledgment that answers a coordinator request
Answer(msg) ==
    CASE msg.kind = "ReceiveParticleInitPDMSG" ->
            [kind |-> "ReceiveParticleInitAckPDMSG", pid_fid |-> <<>>, result |-> None]
      [] msg.kind = "ReceiveRegisterPDMSG" ->
            [kind |-> "ReceiveRegisterAckPDMSG", pid_fid |-> <<>>, result |-> None]
      [] msg.kind = "ReceiveParametersPDMSG" ->
            [kind |-> "ReceiveParametersAckPDMSG", pid_fid |-> msg.pid_fid,
             result |-> Val("params", <<>>)]
      [] msg.kind = "NELSaveModel" ->
            [kind |-> "NELSaveModelAckPDMSG", pid_fid |-> msg.pid_fid, result |-> None]
      [] msg.kind = "NELBroadcastParticlesMSG" ->
            [kind |-> "NELBroadcastParticlesAckMSG", pid_fid |-> <<>>, result |-> None]

\* the dispatch frame on top of the stack returns to its caller in this step
DispatchReturns ==
    AtTop("disp") /\ stack' = Front(stack) /\ loop' # "crashed"

\* the handler on top of the stack, called by _dispatch for a coordinator's
\* invocation request, returns in this step
HandlerReturns ==
    /\ Executing("ret")
    /\ Top.via = "PD"
    /\ stack' = SubSeq(stack, 1, Len(stack) - 2)
    /\ loop' # "crashed"

\* C27: a dispatch of an init, register, parameters, broadcast or persist
\* request that returns puts exactly its acknowledgment on out_queue; a
\* handler run for a coordinator's invocation request that returns puts
\* exactly one acknowledgment carrying the sender's id and the value
\* returned; a teardown message puts nothing; no other step puts an
\* acknowledgment on out_queue.
EachRequestAcknowledged ==
    [][IF DispatchReturns /\ Top.msg.kind \in
              {"ReceiveParticleInitPDMSG", "ReceiveRegisterPDMSG",
               "ReceiveParametersPDMSG", "NELSaveModel", "NELBroadcastParticlesMSG"}
       THEN out_queue' = Append(out_queue, Answer(Top.msg))
       ELSE IF HandlerReturns
       THEN /\ Len(out_queue') = Len(out_queue) + 1
            /\ Front(out_queue') = out_queue
            /\ Last(out_queue').kind = "ReceiveFuncAckPDMSG"
            /\ Last(out_queue').pid_fid = stack[Len(stack) - 1].msg.pid_fid
            /\ Last(out_queue').result =
                   (CASE Instr.what = "args" -> Top.args
                      [] Instr.what = "last" -> Top.last
                      [] OTHER -> None)
       ELSE \A n \in 1 .. Len(out_queue') :
               n > Len(out_queue) => out_queue'[n].kind = "Error"]_vars

\* every particle and a broadcast were acknowledged, a persist request was
\* acknowledged with its token, an invocation was acknowledged with the
\* value its handler returned
EachRequestAcknowledgedWitness ==
    /\ Len(SelectSeq(out_queue,
                     LAMBDA m : m.kind = "ReceiveParticleInitAckPDMSG")) = NPids
    /\ \E n \in 1 .. Len(out_queue) :
          out_queue[n].kind = "NELBroadcastParticlesAckMSG"
    /\ \E n \in 1 .. Len(out_queue) :
          /\ out_queue[n].kind = "NELSaveModelAckPDMSG"
          /\ out_queue[n].pid_fid # <<>>
    /\ \E n \in 1 .. Len(out_queue) :
          /\ out_queue[n].kind = "ReceiveFuncAckPDMSG"
          /\ out_queue[n].pid_fid # <<>>
          /\ out_queue[n].result # None

\* C28: the pending sets and the future-to-particle map agree, and every
\* registered future id is below the counter.
FutureMapsAgree ==
    /\ \A p \in DOMAIN particle_to_futures : \A f \in particle_to_futures[p] :
          f \in DOMAIN future_to_particle /\ future_to_particle[f] = p
    /\ \A f \in DOMAIN future_to_particle :
          /\ future_to_particle[f] \in DOMAIN particle_to_futures
          /\ f \in particle_to_futures[future_to_particle[f]]
          /\ f < future_id

\* after a broadcast, a get, a send, a compute operation and a wait that
\* consumed a result, futures of two particles are pending
FutureMapsAgreeWitness ==
    /\ has_queues
    /\ hist.gets # <<>>
    /\ hist.consumed # <<>>
    /\ Threads # {}
    /\ \E f, g \in DOMAIN future_to_particle :
          future_to_particle[f] = 0 /\ future_to_particle[g] = 1

\* C29: the values seen through the view of every get are the values the
\* source had when that get was called, later gets of the same source from
\* the same device included.
EarlierViewKept ==
    \A i \in 1 .. Len(hist.gets) :
        view_caches[hist.gets[i].dev].val[hist.gets[i].pid] = hist.gets[i].val

\* C30: when a wait that pumped the queue returns to the handler that called
\* it, the module of the handler's particle is resident in the cache of its
\* device.
WaitRestoresCaller ==
    [][(/\ AtTop("wait")
        /\ Top.phase = "replay"
        /\ Top.i > Len(Top.msgs)
        /\ Len(stack') = Len(stack) - 1) =>
          LET X == stack[Len(stack) - 1].pid IN
          X \in SeqToSet(caches'[particle_to_device[X]].res)]_vars

\* C31: when the handler MULTIMC_MAIN returns, every future created since it
\* was called has been consumed by a wait: it is in no pending set and its
\* result is not in the results map.
TrainingFuturesConsumed ==
    [][(/\ Executing("ret")
        /\ Top.op = "MAIN"
        /\ Len(stack') < Len(stack)
        /\ loop' # "crashed") =>
          \A f \in Top.f0 .. (future_id - 1) :
              /\ f \in ConsumedSet
              /\ f \notin DOMAIN results'
              /\ f \notin DOMAIN future_to_particle'
              /\ \A p \in DOMAIN particle_to_futures' :
                    f \notin particle_to_futures'[p]]_vars
====
